---- MODULE Spec2Model ----
(***************************************************************************)
(* State-machine model of the qr-link-service request handlers             *)
(* (src/src/main.rs, src/src/error.rs).                                    *)
(*                                                                         *)
(* One shared rusqlite connection sits behind a std::sync::Mutex. Every    *)
(* request runs as its own task; the tasks interleave at the granularity   *)
(* of the statements of the handlers. Strings (URLs, decimal identifiers)  *)
(* are sequences of byte values.                                           *)
(***************************************************************************)
EXTENDS Integers, Sequences, FiniteSets, TLC

\* ------------------------------------------------------------------ bounds
\* Number of request tasks that can be in flight at the same time.
NumReqs == 2
\* Largest number of rows the urls relation is allowed to grow to.
MaxRows == 2

\* The number of times the process is started again.
MaxRestarts == 1

Reqs == 1..NumReqs

\* Identifiers a client may put in the path: each names a row only once
\* that many rows have been inserted.
IdInputs == 1..MaxRows

\* URL strings a client may submit: "a", and "b\n" (a line feed is not a
\* legal byte of an HTTP header value).
URLs == { <<97>>, <<98, 10>> }

\* Option<String> / Option<u32> of QrQuery: <<>> is None, <<x>> is Some(x).
QrFormats == { <<>>, <<"ascii">> }
QrSizes == { <<>> }

\* Further query strings of /1/qr: a size, a format other than "ascii", a
\* format that differs from "ascii" in case only, and "ascii" with a size.
QrRequests ==
    { [kind |-> "get_qr", id |-> 1, format |-> <<"png">>, size |-> <<512>>],
      [kind |-> "get_qr", id |-> 1, format |-> <<>>, size |-> <<512>>],
      [kind |-> "get_qr", id |-> 1, format |-> <<"ASCII">>, size |-> <<>>],
      [kind |-> "get_qr", id |-> 1, format |-> <<"ascii">>, size |-> <<512>>] }

\* ------------------------------------------------------------------- state
VARIABLES
    urls,        \* the urls relation: the sequence of its rows, in insertion order
    seq,         \* sqlite_sequence entry of urls: the largest rowid ever assigned
    last_rowid,  \* the connection's last_insert_rowid()
    lock,        \* the task that holds the Mutex guard, or NoHolder
    poisoned,    \* the Mutex's poison flag
    pc,          \* each task's position in its handler
    req,         \* each task's request
    local,       \* each task's local: the fetched row / the row it inserted
    result,      \* each task's response
    stats,       \* the stats relation: the sequence of its rows
    epoch,       \* the storage clock: the number of restarts of the process
    offered      \* the requests the clients of this run may send

vars == <<urls, seq, last_rowid, lock, poisoned, pc, req, local, result,
          stats, epoch, offered>>

NoHolder == 0

NoRequest == [kind |-> "none"]
NoLocal == [id |-> 0, url |-> <<>>]
NoResult == [type |-> "none"]

Requests ==
    [kind : {"get_url", "get_meta"}, id : IdInputs]
        \cup [kind : {"create_url"}, url : URLs]
        \cup [kind : {"get_qr"}, id : IdInputs, format : QrFormats, size : QrSizes]
        \cup [kind : {"get_info"}]

\* The handlers that call get_connection.
StorageKinds == {"get_url", "get_meta", "create_url"}

\* ---------------------------------------------------------- pure functions
\* u64::to_string / i64::to_string: the decimal digits of n.
RECURSIVE to_string(_)
to_string(n) ==
    IF n < 10 THEN <<48 + n>>
    ELSE to_string(n \div 10) \o <<48 + (n % 10)>>

\* Whether HeaderValue::try_from accepts the string: every byte is a tab or
\* a visible character (32..255 except 127).
ValidHeaderValue(u) ==
    \A k \in 1..Len(u) : u[k] = 9 \/ (u[k] >= 32 /\ u[k] < 256 /\ u[k] # 127)

\* Redirect::to(&url): 303 See Other with the Location header.
Redirect_to(u) == [type |-> "Redirect", status |-> 303, location |-> u]

\* axum::Json(json!({"stored_id": .., "stored_url": ..})): 200 OK.
Json(id, u) ==
    [type |-> "Json", status |-> 200, stored_id |-> to_string(id), stored_url |-> u]

\* The Error values the handlers build.
DatabaseError(e) == [variant |-> "DatabaseError", message |-> e]
LockError == [variant |-> "LockError", message |-> "PoisonError"]

\* An arm that answers a lock failure with 200 OK.
into_response_Ok(e) ==
    CASE e.variant = "DatabaseError" ->
            [type |-> "Error", status |-> 500, error |-> e.variant, body |-> e.message]
      [] e.variant = "LockError" ->
            [type |-> "Error", status |-> 200, error |-> e.variant, body |-> e.message]

\* impl IntoResponse for Error: both variants answer 500 with the message.
into_response(e) ==
    CASE e.variant = "DatabaseError" ->
            [type |-> "Error", status |-> 500, error |-> e.variant, body |-> e.message]
      [] e.variant = "LockError" ->
            [type |-> "Error", status |-> 500, error |-> e.variant, body |-> e.message]

\* A handler that unwound: the task ends and the client gets no response.
Panicked == [type |-> "Panic"]

\* ------------------------------------------------------------- the storage
\* WHERE id = ? AND deleted_at IS NULL
SelectLive(id) ==
    { k \in 1..Len(urls) : urls[k].id = id /\ ~urls[k].deleted_at }

\* Off by one: the largest rowid in the relation instead of its successor.
NextRowid_Reuse == IF Len(urls) = 0 THEN 1 ELSE urls[Len(urls)].id

\* A counter kept by the connection instead of the storage file.
NextRowid_PerConnection == last_rowid + 1

\* INTEGER PRIMARY KEY AUTOINCREMENT: one more than the largest rowid ever
\* assigned to the relation.
NextRowid == seq + 1

\* A UNIQUE constraint on external_id, which the schema does not have.
InsertAccepts_Unique(u) == \A k \in 1..Len(urls) : urls[k].external_id # u

\* A CHECK (external_id <> '') constraint, which the schema does not have.
InsertAccepts_NonEmpty(u) == u # <<>>

\* external_id TEXT NOT NULL is the only constraint on the inserted value:
\* the bound parameter is a Rust String, never NULL, so any string passes.
InsertAccepts(u) == u \in Seq(Nat)

\* INSERT OR REPLACE on a url that is unique: the row that held the url goes.
InsertInto_Replace(u) ==
    SelectSeq(urls, LAMBDA row : row.external_id # u)
        \o << [id |-> NextRowid, external_id |-> u, created_at |-> epoch,
               deleted_at |-> FALSE] >>

\* The statement run twice.
InsertInto_Twice(u) ==
    urls \o << [id |-> NextRowid, external_id |-> u, created_at |-> epoch,
                deleted_at |-> FALSE],
               [id |-> NextRowid + 1, external_id |-> u, created_at |-> epoch,
                deleted_at |-> FALSE] >>

\* INSERT INTO urls (external_id) VALUES (?): one new row; id, created_at
\* and deleted_at take their defaults.
InsertInto(u) ==
    Append(urls, [id |-> NextRowid, external_id |-> u, created_at |-> epoch,
                  deleted_at |-> FALSE])

\* ----------------------------------------------------------------- the lock
\* A lock that never blocks (the connection shared without the Mutex).
LockAvailable_NoBlock == TRUE

\* Mutex::lock returns only when no guard is alive.
LockAvailable == lock = NoHolder

\* The poison flag ignored (lock().unwrap_or_else(PoisonError::into_inner)).
LockPoisoned_Ignored == FALSE

\* Mutex::lock answers Err(PoisonError) when the poison flag is set.
LockPoisoned == poisoned

\* The guard leaked (mem::forget) instead of dropped.
DropGuard_Leak(r) == lock

\* Drop of the MutexGuard at the end of the handler (return, `?`, unwind).
DropGuard(r) == IF lock = r THEN NoHolder ELSE lock

\* ---------------------------------------------------------------------- Init
\* The state after main has opened the storage and built the Mutex, for
\* clients that send the requests in o.
InitWith(o) ==
    /\ urls = <<>>
    /\ seq = 0
    /\ last_rowid = 0
    /\ lock = NoHolder
    /\ poisoned = FALSE
    /\ pc = [r \in Reqs |-> "idle"]
    /\ req = [r \in Reqs |-> NoRequest]
    /\ local = [r \in Reqs |-> NoLocal]
    /\ result = [r \in Reqs |-> NoResult]
    /\ stats = <<>>
    /\ epoch = 0
    /\ offered = o

Init == InitWith(Requests)

\* Number of create_url requests that may still insert a row.
PendingCreates ==
    Cardinality({ r \in Reqs : req[r].kind = "create_url"
                                /\ pc[r] \in {"start", "locked"} })

\* A handler that starts over when a step fails instead of answering.
Finish_Retry(r, x) ==
    /\ pc' = [pc EXCEPT ![r] = IF x.type = "Error" THEN "start" ELSE "done"]
    /\ result' = [result EXCEPT ![r] = IF x.type = "Error" THEN @ ELSE x]
    /\ lock' = DropGuard(r)

\* The task ends with response x; its guard, when it has one, is dropped.
Finish(r, x) ==
    /\ pc' = [pc EXCEPT ![r] = "done"]
    /\ result' = [result EXCEPT ![r] = x]
    /\ lock' = DropGuard(r)

\* ------------------------------------------------------------------ actions
\* The router hands a request for a storage-touching handler to a new task.
Receive(r) ==
    /\ pc[r] = "idle"
    /\ \E q \in offered :
        /\ q.kind \in StorageKinds
        /\ q.kind = "create_url" => Len(urls) + PendingCreates < MaxRows
        /\ req' = [req EXCEPT ![r] = q]
    /\ pc' = [pc EXCEPT ![r] = "start"]
    /\ UNCHANGED <<stats, offered, epoch, urls, seq, last_rowid, lock, poisoned, local, result>>

\* get_connection: the lock is free and not poisoned; the task takes the guard.
get_connection_ok(r) ==
    /\ pc[r] = "start"
    /\ req[r].kind \in StorageKinds
    /\ LockAvailable
    /\ ~LockPoisoned
    /\ lock' = r
    /\ pc' = [pc EXCEPT ![r] = "locked"]
    /\ UNCHANGED <<stats, offered, epoch, urls, seq, last_rowid, poisoned, req, local, result>>

\* get_connection: the lock is poisoned; `?` returns Error::LockError and the
\* guard inside the PoisonError is dropped at once.
get_connection_err(r) ==
    /\ pc[r] = "start"
    /\ req[r].kind \in StorageKinds
    /\ LockAvailable
    /\ LockPoisoned
    /\ pc' = [pc EXCEPT ![r] = "done"]
    /\ result' = [result EXCEPT ![r] = into_response(LockError)]
    /\ UNCHANGED <<stats, offered, epoch, urls, seq, last_rowid, lock, poisoned, req, local>>

\* conn.prepare(..) of get_url / get_meta succeeds.
prepare_ok(r) ==
    /\ pc[r] = "locked"
    /\ req[r].kind \in {"get_url", "get_meta"}
    /\ pc' = [pc EXCEPT ![r] = "prepared"]
    /\ UNCHANGED <<stats, offered, epoch, urls, seq, last_rowid, lock, poisoned, req, local, result>>

\* conn.prepare(..) fails: `?` returns Error::DatabaseError.
prepare_err(r) ==
    /\ pc[r] = "locked"
    /\ req[r].kind \in {"get_url", "get_meta"}
    /\ Finish(r, into_response(DatabaseError("SqliteFailure")))
    /\ UNCHANGED <<stats, offered, epoch, urls, seq, last_rowid, poisoned, req, local>>

\* stmt.query_row(..) finds the live row.
query_row_ok(r) ==
    /\ pc[r] = "prepared"
    /\ \E k \in SelectLive(req[r].id) :
        local' = [local EXCEPT ![r] = [id |-> urls[k].id, url |-> urls[k].external_id]]
    /\ pc' = [pc EXCEPT ![r] = "fetched"]
    /\ UNCHANGED <<stats, offered, epoch, urls, seq, last_rowid, lock, poisoned, req, result>>

\* stmt.query_row(..) finds no row: rusqlite answers QueryReturnedNoRows,
\* which map_err wraps in Error::DatabaseError.
query_row_none(r) ==
    /\ pc[r] = "prepared"
    /\ SelectLive(req[r].id) = {}
    /\ Finish(r, into_response(DatabaseError("QueryReturnedNoRows")))
    /\ UNCHANGED <<stats, offered, epoch, urls, seq, last_rowid, poisoned, req, local>>

\* stmt.query_row(..) fails in the storage engine.
query_row_err(r) ==
    /\ pc[r] = "prepared"
    /\ Finish(r, into_response(DatabaseError("SqliteFailure")))
    /\ UNCHANGED <<stats, offered, epoch, urls, seq, last_rowid, poisoned, req, local>>

\* get_url: Ok(Redirect::to(&url)). Redirect::to panics when the url is not
\* a valid header value; the unwinding drops the guard and poisons the Mutex.
get_url_respond(r) ==
    /\ pc[r] = "fetched"
    /\ req[r].kind = "get_url"
    /\ IF ValidHeaderValue(local[r].url)
         THEN /\ Finish(r, Redirect_to(local[r].url))
              /\ UNCHANGED poisoned
         ELSE /\ Finish(r, Panicked)
              /\ poisoned' = TRUE
    /\ UNCHANGED <<stats, offered, epoch, urls, seq, last_rowid, req, local>>

\* get_meta: Ok(Json({stored_id: id.to_string(), stored_url: url})).
get_meta_respond(r) ==
    /\ pc[r] = "fetched"
    /\ req[r].kind = "get_meta"
    /\ Finish(r, Json(local[r].id, local[r].url))
    /\ UNCHANGED <<stats, offered, epoch, urls, seq, last_rowid, poisoned, req, local>>

\* create_url: conn.execute("INSERT INTO urls (external_id) VALUES (?)").
execute_ok(r) ==
    /\ pc[r] = "locked"
    /\ req[r].kind = "create_url"
    /\ InsertAccepts(req[r].url)
    /\ urls' = InsertInto(req[r].url)
    /\ seq' = NextRowid
    /\ last_rowid' = NextRowid
    /\ local' = [local EXCEPT ![r] = [id |-> NextRowid, url |-> req[r].url]]
    /\ pc' = [pc EXCEPT ![r] = "inserted"]
    /\ UNCHANGED <<stats, offered, epoch, lock, poisoned, req, result>>

\* create_url: the INSERT fails; `?` returns Error::DatabaseError.
execute_err(r) ==
    /\ pc[r] = "locked"
    /\ req[r].kind = "create_url"
    /\ Finish(r, into_response(DatabaseError("SqliteFailure")))
    /\ UNCHANGED <<stats, offered, epoch, urls, seq, last_rowid, poisoned, req, local>>

\* create_url: conn.last_insert_rowid(), then Ok(Json(..)).
create_url_respond(r) ==
    /\ pc[r] = "inserted"
    /\ Finish(r, Json(last_rowid, req[r].url))
    /\ UNCHANGED <<stats, offered, epoch, urls, seq, last_rowid, poisoned, req, local>>

\* A target looked up in the store instead of synthesized.
QrTarget_Lookup(id) ==
    IF SelectLive(id) = {} THEN <<>>
    ELSE urls[CHOOSE k \in SelectLive(id) : TRUE].external_id

\* format!("https://example.com/{}", external_id)
QrTarget(id) ==
    <<104, 116, 116, 112, 115, 58, 47, 47, 101, 120, 97, 109, 112, 108, 101,
      46, 99, 111, 109, 47>> \o to_string(id)

\* The size parameter dropped.
QrSize_Fixed(size) == 300

\* params.size.unwrap_or(300)
QrSize(size) == IF size = <<>> THEN 300 ELSE size[1]

\* QrCode::new(url) succeeds when the data fits the largest symbol at the
\* default error correction level M: 2331 bytes.
QrEncodes(t) == Len(t) <= 2331

\* The error get_qr builds when QrCode::new fails. error.rs declares no such
\* variant and into_response has no arm for it.
DatabaseErrorTwo(e) == [variant |-> "DatabaseErrorTwo", message |-> e]

\* The response of get_qr: the symbol of the synthesized target, as text
\* (two columns per module, no quiet zone) or as a PNG of the asked size.
QrResponse(q) ==
    IF ~QrEncodes(QrTarget(q.id))
      THEN into_response(DatabaseErrorTwo("QR code generation failed"))
    ELSE IF q.format = <<"ascii">>
      THEN [type |-> "Qr", status |-> 200, content_type |-> "text/plain",
            target |-> QrTarget(q.id), min_dimensions |-> 0]
      ELSE [type |-> "Qr", status |-> 200, content_type |-> "image/png",
            target |-> QrTarget(q.id), min_dimensions |-> QrSize(q.size)]

\* get_qr: the whole handler; it touches neither the lock nor the store.
get_qr(r) ==
    /\ pc[r] = "idle"
    /\ \E q \in offered :
        /\ q.kind = "get_qr"
        /\ req' = [req EXCEPT ![r] = q]
        /\ result' = [result EXCEPT ![r] = QrResponse(q)]
    /\ pc' = [pc EXCEPT ![r] = "done"]
    /\ UNCHANGED <<stats, offered, epoch, urls, seq, last_rowid, lock, poisoned, local>>

\* get_info: the whole handler; the static manifest.
get_info(r) ==
    /\ pc[r] = "idle"
    /\ req' = [req EXCEPT ![r] = [kind |-> "get_info"]]
    /\ result' = [result EXCEPT ![r] = [type |-> "Info", status |-> 200]]
    /\ pc' = [pc EXCEPT ![r] = "done"]
    /\ UNCHANGED <<stats, offered, epoch, urls, seq, last_rowid, lock, poisoned, local>>

\* The response has been written to the client and the task is gone.
Deliver(r) ==
    /\ pc[r] = "done"
    /\ pc' = [pc EXCEPT ![r] = "idle"]
    /\ req' = [req EXCEPT ![r] = NoRequest]
    /\ local' = [local EXCEPT ![r] = NoLocal]
    /\ result' = [result EXCEPT ![r] = NoResult]
    /\ UNCHANGED <<stats, offered, epoch, urls, seq, last_rowid, lock, poisoned>>

\* A test harness sets deleted_at of a row directly in the storage file; no
\* handler does, and the harness does not go through the Mutex.
soft_delete(k) ==
    /\ k \in 1..Len(urls)
    /\ ~urls[k].deleted_at
    /\ urls' = [urls EXCEPT ![k].deleted_at = TRUE]
    /\ UNCHANGED <<stats, offered, epoch, seq, last_rowid, lock, poisoned, pc, req, local, result>>

\* The process stops, at any point, and is started again: every task and the
\* Mutex are gone with the process, main opens forum.db again and runs the
\* schema batch, whose CREATE TABLE IF NOT EXISTS statements find both
\* relations and do nothing. The new connection has inserted no row yet.
Restart ==
    /\ epoch < MaxRestarts
    /\ epoch' = epoch + 1
    /\ lock' = NoHolder
    /\ poisoned' = FALSE
    /\ last_rowid' = 0
    /\ pc' = [r \in Reqs |-> "idle"]
    /\ req' = [r \in Reqs |-> NoRequest]
    /\ local' = [r \in Reqs |-> NoLocal]
    /\ result' = [r \in Reqs |-> NoResult]
    /\ UNCHANGED <<urls, seq, stats, offered>>

\* -------------------------------------------------------------- specification
\* The steps of the handlers in which the storage engine does not fail.
Reliable(r) ==
    \/ Receive(r)
    \/ get_connection_ok(r)
    \/ get_connection_err(r)
    \/ prepare_ok(r)
    \/ query_row_ok(r)
    \/ query_row_none(r)
    \/ get_url_respond(r)
    \/ get_meta_respond(r)
    \/ execute_ok(r)
    \/ create_url_respond(r)
    \/ get_qr(r)
    \/ get_info(r)
    \/ Deliver(r)

\* The steps in which the storage engine reports a failure.
StorageFailure(r) ==
    \/ prepare_err(r)
    \/ query_row_err(r)
    \/ execute_err(r)

Next == \E r \in Reqs : Reliable(r) \/ StorageFailure(r)

\* The service alone.
Spec == Init /\ [][Next]_vars

\* The service on a storage engine that never fails.
NextReliable == \E r \in Reqs : Reliable(r)

SpecReliable == Init /\ [][NextReliable]_vars

\* The service, on a storage engine that never fails, with the harness
\* that soft-deletes rows behind its back.
NextReliableHarness ==
    \/ \E r \in Reqs : Reliable(r)
    \/ \E k \in 1..MaxRows : soft_delete(k)

SpecReliableHarness == Init /\ [][NextReliableHarness]_vars

\* POST /?url= : Query<CreateUrlParams> deserializes url as the empty
\* String.
EmptyUrlRequest == [kind |-> "create_url", url |-> <<>>]

\* The service, on a storage engine that never fails, for clients that also
\* submit the empty url.
SpecEmptyUrl == InitWith(Requests \cup {EmptyUrlRequest}) /\ [][NextReliable]_vars

\* Clients that submit urls and name no identifier but the first.
FirstRowRequests ==
    { q \in Requests : q.kind \in {"get_url", "get_meta", "get_qr"} => q.id = 1 }

\* Clients that submit urls and resolve the first record.
RestartRequests ==
    [kind : {"get_url", "get_meta"}, id : {1}]
        \cup [kind : {"create_url"}, url : URLs]

\* The handlers that use the storage, on a storage engine that never fails,
\* in a process that is stopped and started again.
NextRestart ==
    \/ \E r \in Reqs :
          \/ Receive(r)
          \/ get_connection_ok(r)
          \/ get_connection_err(r)
          \/ prepare_ok(r)
          \/ query_row_ok(r)
          \/ query_row_none(r)
          \/ get_url_respond(r)
          \/ get_meta_respond(r)
          \/ execute_ok(r)
          \/ create_url_respond(r)
          \/ Deliver(r)
    \/ Restart

SpecRestart == InitWith(RestartRequests) /\ [][NextRestart]_vars

\* The steps a task takes on its own once it has its request: the statements
\* of its handler up to the response.
HandlerStep(r) ==
    \/ get_connection_ok(r)
    \/ get_connection_err(r)
    \/ prepare_ok(r)
    \/ prepare_err(r)
    \/ query_row_ok(r)
    \/ query_row_none(r)
    \/ query_row_err(r)
    \/ get_url_respond(r)
    \/ get_meta_respond(r)
    \/ execute_ok(r)
    \/ execute_err(r)
    \/ create_url_respond(r)

\* The service under a fair scheduler: a task that can take a step of its
\* handler from some point on without interruption takes one.  Clients are
\* under no obligation to send requests.
SpecFair ==
    /\ InitWith(FirstRowRequests)
    /\ [][Next]_vars
    /\ \A r \in Reqs : WF_vars(HandlerStep(r))

\* The service, on a storage engine that never fails, for clients that also
\* send the further QR requests.
SpecQr == InitWith(Requests \cup QrRequests) /\ [][NextReliable]_vars

\* The service, on a storage engine that never fails, with the harness
\* soft-deleting the first row.
NextFirstRowDeleted ==
    \/ \E r \in Reqs : Reliable(r)
    \/ soft_delete(1)

SpecFirstRowDeleted == InitWith(FirstRowRequests) /\ [][NextFirstRowDeleted]_vars

\* ------------------------------------------------------------------ claims
\* The rows of the relation that hold identifier id.
RowsWithId(id) == { k \in 1..Len(urls) : urls[k].id = id }

\* A task that has finished a request of one of the given kinds.
Finished(r, kinds) == pc[r] = "done" /\ req[r].kind \in kinds

\* A finished create_url that answered with the JSON of the new record.
Created(r) == Finished(r, {"create_url"}) /\ result[r].type = "Json"

\* The positions at which a task holds the guard of the connection.
HoldsGuard(r) == pc[r] \in {"locked", "prepared", "fetched", "inserted"}

\* Task r takes the step that ends its request of one of the given kinds.
Finishes(r, kinds) == pc[r] # "done" /\ pc'[r] = "done" /\ req[r].kind \in kinds

\* C1: round trip. Once create_url has stored a record with a non-empty url
\* u under identifier i, every get_url for i that finishes, after whatever
\* requests ran in between, is a redirect to exactly u.
C1_RoundTrip ==
    [][ \A r \in Reqs : \A k \in 1..Len(urls) :
          ( /\ Finishes(r, {"get_url"})
            /\ urls[k].id = req[r].id
            /\ urls[k].external_id # <<>> )
          => result'[r] = Redirect_to(urls[k].external_id) ]_vars

\* C2: concurrent creates. Any two create_url requests that succeeded got
\* different stored_id values; the stored_id a request got is the id of the
\* row that request inserted; and between a request's INSERT and its read of
\* last_insert_rowid() no other insert has moved last_insert_rowid().
C2_ConcurrentCreates ==
    /\ \A r1, r2 \in Reqs :
          (r1 # r2 /\ Created(r1) /\ Created(r2))
          => result[r1].stored_id # result[r2].stored_id
    /\ \A r \in Reqs :
          Created(r) =>
            /\ result[r].stored_id = to_string(local[r].id)
            /\ \E k \in RowsWithId(local[r].id) : urls[k].external_id = req[r].url
    /\ \A r \in Reqs : pc[r] = "inserted" => last_rowid = local[r].id

\* Two create_url requests, side by side in two tasks, have both succeeded.
C2_Witness ==
    \E r1, r2 \in Reqs :
        /\ r1 # r2
        /\ Created(r1)
        /\ Created(r2)
        /\ result[r1].stored_id = to_string(1)
        /\ result[r2].stored_id = to_string(2)

\* C3: unknown identifier. Every finished get_url or get_meta for an
\* identifier that no row of the store holds was answered with status 404.
C3_UnknownIdNotFound ==
    \A r \in Reqs :
        (Finished(r, {"get_url", "get_meta"}) /\ RowsWithId(req[r].id) = {})
        => (result[r].type = "Error" /\ result[r].status = 404)

\* C4: soft-delete exclusion. When the query of a get_url or get_meta runs
\* on an identifier whose record has deleted_at set, the request ends there,
\* without the url, answered as NotFound with status 404.
C4_SoftDeleteNotFound ==
    [][ \A r \in Reqs :
          ( /\ pc[r] = "prepared"
            /\ pc'[r] # "prepared"
            /\ \E k \in RowsWithId(req[r].id) : urls[k].deleted_at )
          => ( /\ pc'[r] = "done"
               /\ result'[r].type = "Error"
               /\ result'[r].status = 404 ) ]_vars

\* C5: mutual exclusion. At most one task is between taking the guard and
\* dropping it; a task at a storage statement is the holder of the lock; and
\* while the lock is held no other task can get through get_connection.
C5_MutualExclusion ==
    /\ Cardinality({ r \in Reqs : HoldsGuard(r) }) <= 1
    /\ \A r \in Reqs : HoldsGuard(r) => lock = r
    /\ \A r \in Reqs :
          (pc[r] = "start" /\ lock # NoHolder)
          => (~ENABLED get_connection_ok(r) /\ ~ENABLED get_connection_err(r))

\* One task is between prepare and query while another waits for the lock.
C5_Witness ==
    \E r1, r2 \in Reqs :
        /\ pc[r1] = "prepared"
        /\ lock = r1
        /\ pc[r2] = "start"
        /\ req[r2].kind = "create_url"

\* C6: lock release on every exit path. A task that is not inside a handler
\* (it has finished with some response, or by unwinding) is not the holder
\* of the lock, and a held lock is held by a task inside its handler.
C6_LockReleased ==
    /\ \A r \in Reqs : pc[r] \in {"idle", "done"} => lock # r
    /\ lock # NoHolder => (lock \in Reqs /\ HoldsGuard(lock))

\* One task has unwound, another has returned a storage error, and the lock
\* is free.
C6_Witness ==
    \E r1, r2 \in Reqs :
        /\ pc[r1] = "done" /\ result[r1] = Panicked
        /\ pc[r2] = "done" /\ result[r2].type = "Error"
        /\ result[r2].error = "DatabaseError"
        /\ lock = NoHolder

\* C7: poisoned lock. Once the lock is poisoned it stays poisoned and free;
\* every task that then calls get_connection gets through at once, ends with
\* LockError (status 500) without reaching a storage statement, and leaves
\* the store as it was; the other handlers go on being served.
C7_PoisonedLock ==
    /\ [](poisoned =>
            /\ lock = NoHolder
            /\ \A r \in Reqs : ~HoldsGuard(r)
            /\ \A r \in Reqs :
                  (pc[r] = "start" => ENABLED get_connection_err(r))
                  /\ (pc[r] = "idle" => ENABLED get_info(r)))
    /\ [][ poisoned =>
            /\ poisoned'
            /\ <<urls, seq, last_rowid>>' = <<urls, seq, last_rowid>>
            /\ \A r \in Reqs :
                  (pc[r] = "start" /\ pc'[r] # "start")
                  => ( /\ pc'[r] = "done"
                       /\ result'[r] = into_response(LockError)
                       /\ result'[r].status = 500 ) ]_vars

\* After a holder unwound, a later storage request was answered LockError.
C7_Witness ==
    \E r1, r2 \in Reqs :
        /\ poisoned
        /\ result[r1] = Panicked
        /\ Finished(r2, StorageKinds)
        /\ result[r2] = into_response(LockError)

\* C8: identifier uniqueness. No two rows hold the same id; the ids grow
\* strictly in insertion order, from 1 on the empty store; and none exceeds
\* the largest id ever assigned, which the next insert goes beyond.
C8_UniqueIds ==
    /\ \A j, k \in 1..Len(urls) : j < k => urls[j].id < urls[k].id
    /\ urls # <<>> => urls[1].id = 1
    /\ \A k \in 1..Len(urls) : urls[k].id <= seq
    /\ \A k \in 1..Len(urls) : urls[k].id < NextRowid

\* Two records have been created and the second got identifier 2.
C8_Witness ==
    /\ Len(urls) = 2
    /\ \E r \in Reqs : Created(r) /\ result[r].stored_id = to_string(2)

\* The results of get_url and get_meta that show the record to be live.
Resolved(r) ==
    /\ Finished(r, {"get_url", "get_meta"})
    /\ result[r].type \in {"Redirect", "Json"}

C10_Duplicates ==
    /\ \A r \in Reqs :
          (pc[r] = "locked" /\ req[r].kind = "create_url") => ENABLED execute_ok(r)
    /\ \A r1, r2 \in Reqs :
          (r1 # r2 /\ Created(r1) /\ Created(r2) /\ req[r1].url = req[r2].url)
          => /\ result[r1].stored_id # result[r2].stored_id
             /\ \E k1, k2 \in 1..Len(urls) :
                   /\ k1 # k2
                   /\ to_string(urls[k1].id) = result[r1].stored_id
                   /\ to_string(urls[k2].id) = result[r2].stored_id
                   /\ urls[k1].external_id = req[r1].url
                   /\ urls[k2].external_id = req[r1].url
                   /\ SelectLive(urls[k1].id) = {k1}
                   /\ SelectLive(urls[k2].id) = {k2}

\* The same url was submitted twice and both submissions succeeded.
C10_Witness ==
    \E r1, r2 \in Reqs :
        /\ r1 # r2
        /\ Created(r1)
        /\ Created(r2)
        /\ req[r1].url = req[r2].url
        /\ Len(urls) = 2
        /\ urls[1].external_id = urls[2].external_id

\* C11: error mapping. Every step in which a handler fails (get_connection
\* on a poisoned lock, prepare, query_row or the INSERT returning an error)
\* ends the request with status 500 and the error's message as the body,
\* never with a success status; and every response of type Error, get_qr's
\* included, carries status 500.
C11_ErrorMapping ==
    /\ [](\A r \in Reqs :
            result[r].type = "Error" =>
              /\ result[r].status = 500
              /\ result[r].error \in {"DatabaseError", "LockError"}
              /\ result[r].body \in {"SqliteFailure", "QueryReturnedNoRows", "PoisonError"})
    /\ [][ \A r \in Reqs :
            ( /\ Finishes(r, StorageKinds)
              /\ pc[r] \in {"start", "locked", "prepared"} )
            => ( /\ result'[r].type = "Error"
                 /\ result'[r].status = 500
                 /\ result'[r].status \notin 200..399
                 /\ result'[r].body \in
                       IF pc[r] = "start" THEN {LockError.message}
                       ELSE IF pc[r] = "prepared" /\ SelectLive(req[r].id) = {}
                              THEN {"QueryReturnedNoRows", "SqliteFailure"}
                       ELSE {"SqliteFailure"}
                 /\ result'[r].error =
                       IF pc[r] = "start" THEN "LockError" ELSE "DatabaseError" ) ]_vars

\* One request was answered with a lock failure, another with a storage
\* failure of the INSERT.
C11_Witness ==
    \E r1, r2 \in Reqs :
        /\ Finished(r1, StorageKinds)
        /\ result[r1] = into_response(LockError)
        /\ Finished(r2, {"create_url"})
        /\ result[r2] = into_response(DatabaseError("SqliteFailure"))

\* C12: metadata agrees with resolution. Where get_meta has resolved
\* identifier i, a get_url for i that finishes while the record is live
\* succeeds too, with the stored_url as its redirect target, and the
\* stored_id is the decimal string of i.
C12_MetaAgrees ==
    [][ \A r1, r2 \in Reqs :
          ( /\ Resolved(r1)
            /\ req[r1].kind = "get_meta"
            /\ Finishes(r2, {"get_url"})
            /\ req[r2].id = req[r1].id
            /\ SelectLive(req[r2].id) # {}
            /\ ~poisoned )
          => ( /\ result[r1].stored_id = to_string(req[r1].id)
               /\ result'[r2] = Redirect_to(result[r1].stored_url) ) ]_vars

\* C13: QR format selection. get_qr answers text/plain exactly when format
\* is "ascii"; for every other format, and for none, it answers image/png, of
\* the size asked for, or of 300 when none is.
C13_QrFormat ==
    \A r \in Reqs :
        Finished(r, {"get_qr"}) =>
          /\ result[r].type = "Qr"
          /\ (result[r].content_type = "text/plain") <=> (req[r].format = <<"ascii">>)
          /\ req[r].format # <<"ascii">> =>
                /\ result[r].content_type = "image/png"
                /\ req[r].size # <<>> => result[r].min_dimensions = req[r].size[1]
                /\ req[r].size = <<>> => result[r].min_dimensions = 300

\* A PNG of 512 was asked for with format "png", a text with "ascii", and
\* both were answered.
C13_Witness ==
    \E r1, r2 \in Reqs :
        /\ Finished(r1, {"get_qr"})
        /\ req[r1].format = <<"png">>
        /\ req[r1].size = <<512>>
        /\ result[r1].content_type = "image/png"
        /\ Finished(r2, {"get_qr"})
        /\ req[r2].format = <<"ascii">>
        /\ result[r2].content_type = "text/plain"

\* C14: QR rendering is independent of shared state. get_qr can run in every
\* state in which a task is free, whoever holds the lock and whether or not
\* it is poisoned; its step changes neither the lock nor the store; and its
\* response is the one any earlier get_qr with the same identifier, size and
\* format got, whatever happened to the store and the lock in between.
C14_QrIndependent ==
    /\ [](\A r \in Reqs : pc[r] = "idle" => ENABLED get_qr(r))
    /\ [][ \A r \in Reqs :
            (pc[r] = "idle" /\ pc'[r] = "done" /\ req'[r].kind = "get_qr")
            => /\ <<urls, seq, last_rowid, stats, lock, poisoned>>'
                    = <<urls, seq, last_rowid, stats, lock, poisoned>>
               /\ \A r2 \in Reqs :
                     (Finished(r2, {"get_qr"}) /\ req[r2] = req'[r])
                     => result'[r] = result[r2] ]_vars

\* Two equal QR requests have been answered, and by now the lock is
\* poisoned and the record of their identifier is soft-deleted.
C14_Witness ==
    \E r1, r2 \in Reqs :
        /\ r1 # r2
        /\ Finished(r1, {"get_qr"})
        /\ Finished(r2, {"get_qr"})
        /\ req[r1] = req[r2]
        /\ result[r1] = result[r2]
        /\ poisoned
        /\ \E k \in RowsWithId(req[r1].id) : urls[k].deleted_at


\* C15: the store is append-only.  Every step of every request leaves each
\* record already in the store where it was, with the same id, the same url
\* and the same created_at, and no record ever has deleted_at set.
C15_AppendOnly ==
    /\ [](\A k \in 1..Len(urls) : ~urls[k].deleted_at)
    /\ [][ /\ Len(urls') >= Len(urls)
           /\ \A k \in 1..Len(urls) : urls'[k] = urls[k] ]_vars

\* Two records are stored and the first one has been resolved after the
\* second one was inserted.
C15_Witness ==
    /\ Len(urls) = 2
    /\ \E r \in Reqs :
          /\ Finished(r, {"get_url", "get_meta"})
          /\ result[r].type \in {"Redirect", "Json"}
          /\ req[r].id = 1


\* The row the request r inserts.
InsertedRow(r) ==
    [id |-> NextRowid, external_id |-> req[r].url, created_at |-> epoch,
     deleted_at |-> FALSE]

\* C16: the frame of each handler.  No step changes stats.  A step of get_url,
\* get_meta, get_qr or get_info leaves urls unchanged.  The only step that
\* changes urls is the insert of a create_url, which adds exactly one row;
\* a create_url that answers with its record added that one row, and one that
\* ends with an error (lock failure or insert failure) added none.
C16_Frame ==
    /\ [][ /\ stats' = stats
           /\ \A r \in Reqs :
                 pc'[r] # pc[r] =>
                   IF pc[r] = "locked" /\ pc'[r] = "inserted"
                     THEN /\ req[r].kind = "create_url"
                          /\ urls' = Append(urls, InsertedRow(r))
                     ELSE urls' = urls ]_vars
    /\ [](\A r \in Reqs :
            Finished(r, {"create_url"}) =>
              /\ result[r].type = "Json" =>
                    Cardinality(RowsWithId(local[r].id)) = 1
              /\ result[r].type = "Error" => local[r] = NoLocal)

\* One create_url has added its row, another has ended with an error and
\* added none, and the store holds the one row.
C16_Witness ==
    /\ Len(urls) = 1
    /\ \E r1, r2 \in Reqs :
          /\ Finished(r1, {"create_url"}) /\ result[r1].type = "Json"
          /\ Finished(r2, {"create_url"}) /\ result[r2].type = "Error"


\* How far a task is through its handler.
Rank(p) ==
    CASE p = "idle" -> 0
      [] p = "start" -> 1
      [] p = "locked" -> 2
      [] p = "prepared" -> 3
      [] p \in {"fetched", "inserted"} -> 4
      [] p = "done" -> 5

\* C17: no retries, failures propagate.  A request only moves forward through
\* its handler, so it passes the lock acquisition and each storage statement
\* at most once; the lock is taken only at the one acquisition point; and the
\* step on which the lock acquisition or a storage statement fails is the
\* last step of the request: it touches no storage, leaves the task without
\* the guard and ends the request with the translated error.
C17_NoRetries ==
    [][ \A r \in Reqs :
          pc'[r] # pc[r] =>
            /\ \/ Rank(pc'[r]) > Rank(pc[r])
               \/ pc[r] = "done" /\ pc'[r] = "idle"
            /\ (lock' = r /\ lock # r) => (pc[r] = "start" /\ pc'[r] = "locked")
            /\ (pc[r] \in {"start", "locked", "prepared"}
                   /\ <<pc[r], pc'[r]>> \notin
                        { <<"start", "locked">>, <<"locked", "prepared">>,
                          <<"locked", "inserted">>, <<"prepared", "fetched">> }) =>
                  /\ pc'[r] = "done"
                  /\ result'[r] \in { into_response(LockError),
                                      into_response(DatabaseError("SqliteFailure")),
                                      into_response(DatabaseError("QueryReturnedNoRows")) }
                  /\ lock' # r
                  /\ urls' = urls /\ seq' = seq /\ last_rowid' = last_rowid ]_vars

\* The insert of a create_url failed while another request was waiting for
\* the lock: the request has ended with the storage error, nothing is stored
\* and the lock is free again.
C17_Witness ==
    \E r1, r2 \in Reqs :
        /\ Finished(r1, {"create_url"})
        /\ result[r1] = into_response(DatabaseError("SqliteFailure"))
        /\ pc[r2] = "start"
        /\ lock = NoHolder
        /\ urls = <<>>


\* No task waits for anything but the one lock, a task that waits holds
\* nothing, and whenever a task waits the lock is free or its holder is a
\* task that can take a step.
NoDeadlock ==
    \A r \in Reqs :
        /\ pc[r] = "start" => lock # r
        /\ pc[r] \notin {"idle", "start"} => ENABLED (HandlerStep(r) \/ Deliver(r))
        /\ pc[r] = "start" =>
              \/ ENABLED HandlerStep(r)
              \/ \E h \in Reqs : h # r /\ lock = h /\ HoldsGuard(h)
                                  /\ ENABLED HandlerStep(h)

\* Every request that blocks on the lock acquires it and every request is
\* answered, unless a holder has terminated abnormally.
EveryRequestProgresses ==
    \A r \in Reqs :
        /\ (pc[r] = "start") ~> (lock = r \/ poisoned)
        /\ (pc[r] = "start") ~> (pc[r] = "done" \/ poisoned)

\* The lock is handed to every task that finds it free again and again.
LockHandOffFair == \A r \in Reqs : SF_vars(get_connection_ok(r))

\* C18 (as stated): there is no reachable deadlock and, under fair
\* scheduling, as long as no holder terminates abnormally, every request
\* that blocks on the lock eventually acquires it and every request
\* eventually receives a response.
C18_Progress == []NoDeadlock /\ EveryRequestProgresses

\* C18 (amended): there is no reachable deadlock and, under fair scheduling
\* and a lock that is handed to every task that finds it free again and
\* again, as long as no holder terminates abnormally, every request that
\* blocks on the lock eventually acquires it and every request eventually
\* receives a response.
C18_ProgressFairLock == []NoDeadlock /\ (LockHandOffFair => EveryRequestProgresses)

\* A request waits for the lock while another request holds it and no
\* holder has terminated abnormally.
C18_Witness ==
    \E r, h \in Reqs :
        /\ pc[r] = "start" /\ lock = h /\ h # r
        /\ ~poisoned


\* The live rows that hold the empty url under identifier id.
LiveEmpty(id) == { k \in SelectLive(id) : urls[k].external_id = <<>> }

\* C19: the empty url is accepted.  The INSERT of a create_url with the
\* empty url is never refused; a create_url with the empty url that got the
\* lock answers with stored_url "" and a fresh stored_id, the id of the one
\* row it inserted, whose external_id is the empty string; and a get_url or
\* get_meta that got the lock for an identifier whose row holds the empty
\* url resolves to the empty string.
C19_EmptyUrl ==
    /\ [](\A r \in Reqs :
            (pc[r] = "locked" /\ req[r] = EmptyUrlRequest) => ENABLED execute_ok(r))
    /\ [][ \A r \in Reqs :
            /\ ( /\ Finishes(r, {"create_url"})
                 /\ req[r] = EmptyUrlRequest
                 /\ pc[r] # "start" )
               => /\ result'[r] = Json(seq, <<>>)
                  /\ LiveEmpty(seq) = RowsWithId(seq)
                  /\ Cardinality(RowsWithId(seq)) = 1
                  /\ \A k \in 1..Len(urls) : urls[k].id <= seq
            /\ ( /\ Finishes(r, {"get_url", "get_meta"})
                 /\ pc[r] # "start"
                 /\ LiveEmpty(req[r].id) # {} )
               => result'[r] = IF req[r].kind = "get_url"
                                 THEN Redirect_to(<<>>)
                                 ELSE Json(req[r].id, <<>>) ]_vars

\* The empty url is stored, and a get_url and a get_meta for its identifier
\* have resolved to the empty string.
C19_Witness ==
    \E r1, r2 \in Reqs :
        /\ Finished(r1, {"get_url"}) /\ result[r1] = Redirect_to(<<>>)
        /\ Finished(r2, {"get_meta"}) /\ result[r2].type = "Json"
        /\ result[r2].stored_url = <<>>
        /\ req[r1].id = req[r2].id
        /\ LiveEmpty(req[r1].id) # {}


\* The rows that were stored before the latest start of the process.
StoredBeforeStart == { k \in 1..Len(urls) : urls[k].created_at < epoch }

\* C20: idempotent startup.  A restart leaves the urls and stats relations
\* as they were, so that every identifier selects the row it selected before;
\* a get_meta that got the lock for a record stored before the restart
\* resolves it, and so does a get_url when the stored url is a legal header
\* value; and every INSERT assigns an id greater than every id in the store,
\* the ids assigned before the restart included.
C20_IdempotentStartup ==
    /\ [][ (epoch' # epoch) =>
              /\ urls' = urls /\ stats' = stats /\ seq' = seq
              /\ \A id \in IdInputs : SelectLive(id)' = SelectLive(id) ]_vars
    /\ [][ \A r \in Reqs :
              ( /\ Finishes(r, {"get_url", "get_meta"})
                /\ pc[r] # "start"
                /\ SelectLive(req[r].id) \cap StoredBeforeStart # {} )
              => \E k \in SelectLive(req[r].id) :
                    /\ req[r].kind = "get_meta" =>
                          result'[r] = Json(urls[k].id, urls[k].external_id)
                    /\ (req[r].kind = "get_url"
                           /\ ValidHeaderValue(urls[k].external_id)) =>
                          result'[r] = Redirect_to(urls[k].external_id) ]_vars
    /\ [][ \A r \in Reqs :
              (pc[r] = "locked" /\ pc'[r] = "inserted") =>
                /\ Len(urls') = Len(urls) + 1
                /\ \A k \in 1..Len(urls) : urls'[Len(urls')].id > urls[k].id ]_vars

\* The process was started again with one record stored; the record has
\* been resolved since, and a create_url since has stored a second record.
C20_Witness ==
    /\ epoch = 1
    /\ Len(urls) = 2
    /\ urls[1].created_at = 0
    /\ urls[2].created_at = 1
    /\ \E r \in Reqs :
          /\ Finished(r, {"get_url"})
          /\ req[r].id = urls[1].id
          /\ result[r] = Redirect_to(urls[1].external_id)

====
